---------------------------- MODULE Spec2Model ----------------------------
(***************************************************************************)
(* Model of geode-cli-installer-rs:                                        *)
(*   - GeodeInstaller (src/src/utils/geode_installer.rs): the Wine         *)
(*     registry patch, the install pipeline and the zip extraction;        *)
(*   - SteamGameFinder and VdfParser (src/src/utils/steam_game_finder.rs). *)
(*                                                                         *)
(* Text is modelled as a sequence of tokens.  A token is either one of the *)
(* characters the code looks at or an indivisible run of other characters, *)
(* so that substring search, insertion and line splitting are computed on  *)
(* the sequence exactly as the code computes them on the string.           *)
(***************************************************************************)
EXTENDS Integers, Sequences, FiniteSets, TLC

VARIABLES
    reg,        \* content of <prefix>/user.reg, or NoFile
    regLast,    \* the latest patch_wine_registry call: [ok, before, after]
    regStreak,  \* number of successful patch runs in a row
    regRuns,    \* number of patch_wine_registry calls so far
    now         \* the system clock (seconds)

regVars == <<reg, regLast, regStreak, regRuns, now>>

VARIABLES
    pc,         \* position inside install_to_wine: idle, tag, mkdir, download,
                \* open, entries, remove, patch, done
    result,     \* what install_to_wine returned: <<"none">>, <<"ok">>, <<"err", msg>>
    steps,      \* the steps of this attempt that have ended: <<name, succeeded>>
    http,       \* the URLs requested during this attempt
    zip,        \* <game_dir>/geode_temp.zip
    installed,  \* every directory and file created under or outside game_dir
    extractLog, \* per processed zip entry of this attempt, what it created
    idx,        \* extract_zip's loop index (1-based)
    tag,        \* the version tag fetched in this attempt
    attempts,   \* calls of install_to_wine so far
    atStart     \* this attempt's inputs: zip, installed and reg when it started,
                \* and whether the supplied directories exist

instVars == <<pc, result, steps, http, zip, installed, extractLog, idx, tag,
              attempts, atStart>>

VARIABLES
    vdfSyms,    \* the key/value structure the parsed text was written from
    vdfText,    \* the text handed to VdfParser
    vdfOut,     \* what parse_recursive returned: [pos, result]
    vdfDone     \* whether the text has been parsed

vdfVars == <<vdfSyms, vdfText, vdfOut, vdfDone>>

VARIABLES
    disk,            \* the file system: [home, dirs, links, files]
    fpc,             \* position of the SteamGameFinder: new, discover, ready,
                     \* scan, done
    steam_root,      \* SteamGameFinder.steam_root: a path, or None
    library_folders, \* SteamGameFinder.library_folders
    app_id,          \* the identifier get_game_info was called with
    scanIdx,         \* find_game_by_appid's loop index (1-based)
    consulted,       \* the libraries this search has looked into
    game_info        \* what get_game_info returned

finderVars == <<disk, fpc, steam_root, library_folders, app_id, scanIdx,
                consulted, game_info>>

VARIABLES
    ppc,        \* the stepwise parse of vdfText: "run" or "returned"
    cursor,     \* the cursor *pos shared by all calls
    parsed,     \* the map filled so far
    frames,     \* the active parse_recursive calls, outermost first:
                \* [prefix, entry] with the cursor at the call's entry
    stored,     \* the entries inserted so far, in order: <<key, value>>
    lastStep    \* the latest step: [kind, from, to, reads], reads being
                \* the indices of the characters it read

stepVars == <<ppc, cursor, parsed, frames, stored, lastStep>>

vars == <<reg, regLast, regStreak, regRuns, now, pc, result, steps, http, zip,
          installed, extractLog, idx, tag, attempts, atStart,
          vdfSyms, vdfText, vdfOut, vdfDone,
          disk, fpc, steam_root, library_folders, app_id, scanIdx,
          consulted, game_info,
          ppc, cursor, parsed, frames, stored, lastStep>>

-----------------------------------------------------------------------------
(* Bounds *)

MaxRegLen == 4      \* longest initial user.reg, in tokens
MaxRuns == 2        \* patch_wine_registry calls per behaviour
MaxClock == 2       \* clock values 1..MaxClock
MaxEntries == 2     \* entries per downloaded archive
MaxAttempts == 2    \* install_to_wine calls per behaviour
MaxSyms == 6        \* leaves, block openings and closings per parsed text
MaxFolders == 2     \* entries of libraryfolders.vdf
MaxCommented == 4   \* leaves, block openings and closings per commented text
MaxChars == 4       \* characters per text of the stepwise parse
MaxKeyed == 2       \* entries of a libraryfolders.vdf with keys of several kinds

-----------------------------------------------------------------------------
(* Generic sequence helpers *)

Min(S) == CHOOSE x \in S : \A y \in S : x <= y

\* str::contains on token sequences
Contains(s, pat) ==
    \E i \in 1..(Len(s) - Len(pat) + 1) : SubSeq(s, i, i + Len(pat) - 1) = pat

\* String::insert_str: insert ins so that it starts at (1-based) index pos
InsertAt(s, pos, ins) == SubSeq(s, 1, pos - 1) \o ins \o SubSeq(s, pos, Len(s))

\* t is obtained from s by deleting elements (order kept)
RECURSIVE IsSubseq(_, _)
IsSubseq(s, t) ==
    IF s = <<>> THEN TRUE
    ELSE IF t = <<>> THEN FALSE
    ELSE IF Head(s) = Head(t) THEN IsSubseq(Tail(s), Tail(t))
    ELSE IsSubseq(s, Tail(t))

\* all sequences over S of length at most n
RECURSIVE SeqsUpTo(_, _)
SeqsUpTo(S, n) ==
    IF n = 0 THEN {<<>>}
    ELSE LET shorter == SeqsUpTo(S, n - 1)
         IN  shorter \cup {Append(s, x) : s \in shorter, x \in S}

-----------------------------------------------------------------------------
(* user.reg text: tokens *)

NL == "\n"
SECTION == "[Software\\\\Wine\\\\DllOverrides]"
OTHERHDR == "[Software\\\\Wine\\\\Fonts]"     \* some other section header
MARKER == "\"xinput1_4\"="
VALUE == "\"native,builtin\""
TXT == "\"a\"=\"b\""                          \* any other text without newline or '['

ENTRY == <<MARKER, VALUE>>

RegAlphabet == {NL, SECTION, OTHERHDR, MARKER, VALUE, TXT}

\* the token's text starts with '['
StartsWithBracket(tok) == tok \in {SECTION, OTHERHDR}

\* the value of a file variable when the file does not exist
NoFile == <<"<no file>">>

\* format!(" {}", timestamp) and format!("#time={:x}", timestamp)
StampTok(t) == " " \o ToString(t)
HexStampTok(t) == "#time=" \o ToString(t)

\* the lines of a text (split at NL; a final NL ends the last line)
RECURSIVE SplitLines(_, _)
SplitLines(s, cur) ==
    IF s = <<>> THEN (IF cur = <<>> THEN <<>> ELSE <<cur>>)
    ELSE IF Head(s) = NL THEN <<cur>> \o SplitLines(Tail(s), <<>>)
    ELSE SplitLines(Tail(s), Append(cur, Head(s)))

Lines(s) == SplitLines(s, <<>>)

-----------------------------------------------------------------------------
(* GeodeInstaller: the registry patch *)

ContainsMarkerAlways(content) == FALSE

ContainsMarker(content) == Contains(content, <<MARKER>>)

\* content.find(section): 1-based index of the first occurrence, 0 if none
FindSection(content) ==
    IF Contains(content, <<SECTION>>)
    THEN Min({i \in 1..Len(content) : content[i] = SECTION})
    ELSE 0

\* content[search_start..].find("\n[") mapped back to content, or
\* content.len() (here Len + 1, the 1-based end position)
FindInsertPos(content, searchStart) ==
    LET hits == {j \in searchStart..(Len(content) - 1) :
                    content[j] = NL /\ StartsWithBracket(content[j + 1])}
    IN  IF hits = {} THEN Len(content) + 1 ELSE Min(hits)

add_dll_overrides_section(content, t) ==
    content \o <<NL, NL, SECTION, StampTok(t), NL, HexStampTok(t), NL,
                 MARKER, VALUE, NL>>

add_dll_entry_to_section(content) ==
    LET sectionPos == FindSection(content) IN
    IF sectionPos = 0 THEN content
    ELSE LET searchStart == sectionPos + 1
             insertPos == FindInsertPos(content, searchStart)
             entryWithNewline ==
                 IF insertPos = Len(content) + 1
                 THEN <<NL>> \o ENTRY \o <<NL>>
                 ELSE ENTRY \o <<NL>>
         IN  InsertAt(content, insertPos, entryWithNewline)

ensure_dll_override(content, t) ==
    IF ContainsMarker(content) THEN content
    ELSE IF ~Contains(content, <<SECTION>>)
         THEN add_dll_overrides_section(content, t)
         ELSE add_dll_entry_to_section(content)

\* what a failed fs::write can leave behind: the old file (create failed) or
\* a prefix of the new content (the file was truncated, the write stopped)
PartialWrites(old, new) == {old} \cup {SubSeq(new, 1, k) : k \in 0..(Len(new) - 1)}

\* patch_wine_registry(prefix), one call
PatchWineRegistry ==
    /\ regRuns < MaxRuns
    /\ regRuns' = regRuns + 1
    /\ \/ \* user.reg does not exist
          /\ reg = NoFile
          /\ reg' = reg
          /\ regLast' = [ok |-> FALSE, before |-> reg, after |-> reg]
          /\ regStreak' = 0
          /\ now' = now
       \/ \* read_to_string fails
          /\ reg # NoFile
          /\ reg' = reg
          /\ regLast' = [ok |-> FALSE, before |-> reg, after |-> reg]
          /\ regStreak' = 0
          /\ now' = now
       \/ \* read, patch, write
          /\ reg # NoFile
          /\ \E t \in now..MaxClock :
                /\ now' = t
                /\ reg' = ensure_dll_override(reg, t)
          /\ regLast' = [ok |-> TRUE, before |-> reg, after |-> reg']
          /\ regStreak' = regStreak + 1
       \/ \* fs::write fails
          /\ reg # NoFile
          /\ reg' \in PartialWrites(reg, ensure_dll_override(reg, now))
          /\ regLast' = [ok |-> FALSE, before |-> reg, after |-> reg']
          /\ regStreak' = 0
          /\ now' = now

\* before the first patch_wine_registry call
RegStart ==
    /\ regLast = [ok |-> FALSE, before |-> NoFile, after |-> NoFile]
    /\ regStreak = 0
    /\ regRuns = 0
    /\ now = 1

-----------------------------------------------------------------------------
(* GeodeInstaller: the install pipeline (install_to_wine) *)

GEODE_API_URL == "https://api.geode-sdk.org/v1/loader/versions/latest"
GEODE_GITHUB_URL == "https://github.com/geode-sdk/geode/releases/download"

Tags == {"v4.0.0", "v4.1.0"}
NoValue == "<none>"

Ok(v) == <<"ok", v>>
Err(msg) == <<"err", msg>>
IsOk(r) == r[1] = "ok"

\* get_download_url
DownloadUrl(t) == <<GEODE_GITHUB_URL, "/", t, "/geode-", t, "-win.zip">>

\* what the version endpoint can answer: the request may fail to be sent, the
\* status may be non-success, the body may be unreadable or not JSON, and a
\* JSON body has an optional "error" string and an optional payload.tag
ApiResponses ==
    [sent : BOOLEAN, success : BOOLEAN, readable : BOOLEAN, json : BOOLEAN,
     error : {NoValue, "", "rate limited"}, tag : Tags \cup {NoValue}]

http_get(resp) ==
    IF ~resp.sent THEN Err("HTTP request failed")
    ELSE IF ~resp.success THEN Err("HTTP error")
    ELSE IF ~resp.readable THEN Err("Failed to read response body")
    ELSE Ok(resp)

fetch_latest_tag(resp) ==
    LET got == http_get(resp) IN
    IF ~IsOk(got) THEN got
    ELSE IF ~resp.json THEN Err("Failed to parse API response")
    ELSE IF resp.error \notin {NoValue, ""} THEN Err("Geode API error")
    ELSE IF resp.tag = NoValue
         THEN Err("Failed to extract version tag from API response")
         ELSE Ok(resp.tag)

validate_paths_prefix_only(prefixExists, gameDirExists) ==
    IF ~prefixExists THEN Err("Prefix directory doesn't exist") ELSE Ok("")

validate_paths(prefixExists, gameDirExists) ==
    IF ~prefixExists THEN Err("Prefix directory doesn't exist")
    ELSE IF ~gameDirExists THEN Err("Game directory doesn't exist")
    ELSE Ok("")

-----------------------------------------------------------------------------
(* Paths: sequences of components; "/" is the root component *)

Dest == <<"/", "game">>          \* the game directory of the model

\* what the operating system makes of a path: ".." goes up (the root is its
\* own parent), "." stays, "/" starts over at the root
RECURSIVE ResolveFrom(_, _)
ResolveFrom(comps, at) ==
    IF comps = <<>> THEN at
    ELSE LET c == Head(comps) IN
         IF c = "/" THEN ResolveFrom(Tail(comps), <<>>)
         ELSE IF c = ".."
              THEN ResolveFrom(Tail(comps),
                               IF at = <<>> THEN <<>> ELSE SubSeq(at, 1, Len(at) - 1))
         ELSE IF c = "." THEN ResolveFrom(Tail(comps), at)
         ELSE ResolveFrom(Tail(comps), Append(at, c))

Resolve(path) == ResolveFrom(path, <<>>)

\* Path::join: an absolute right-hand side replaces the left-hand side
PathJoin(base, rel) == IF rel # <<>> /\ rel[1] = "/" THEN rel ELSE base \o rel

InsideDest(resolved) ==
    /\ Len(resolved) >= Len(Resolve(Dest))
    /\ SubSeq(resolved, 1, Len(Resolve(Dest))) = Resolve(Dest)

-----------------------------------------------------------------------------
(* The archive and its extraction *)

None == <<"<None>">>

\* stored names of the entries the model draws archives from; dir stands
\* for a stored name that ends with '/'
EntryNames ==
    { <<"a">>, <<"d", "a">>, <<"..", "a">>, <<"a", "..", "b">>,
      <<"a", "..", "..", "b">>, <<"..", "game", "a">>, <<"/", "a">> }

Entries ==
    {[name |-> n, dir |-> FALSE] : n \in EntryNames}
        \cup {[name |-> <<"d">>, dir |-> TRUE], [name |-> <<"..", "d">>, dir |-> TRUE]}

\* a response body: a zip archive with these entries, or not a zip at all
Bodies ==
    {[valid |-> TRUE, entries |-> a] : a \in SeqsUpTo(Entries, MaxEntries)}
        \cup {[valid |-> FALSE, entries |-> <<>>]}

\* the bodies the pipeline model downloads: not a zip, an empty archive, a
\* one-entry archive, and an archive with an unsafe entry before a safe one
InstallBodies ==
    {[valid |-> FALSE, entries |-> <<>>],
     [valid |-> TRUE, entries |-> <<>>],
     [valid |-> TRUE, entries |-> <<[name |-> <<"a">>, dir |-> FALSE]>>],
     [valid |-> TRUE, entries |-> <<[name |-> <<"..", "a">>, dir |-> FALSE],
                                    [name |-> <<"d">>, dir |-> TRUE]>>]}

\* the body is streamed in chunks: one per entry and one for the central
\* directory at the end of the archive
Chunks(body) == Len(body.entries) + 1

NoZip == [exists |-> FALSE, valid |-> FALSE, entries |-> <<>>, written |-> 0, total |-> 0]

ZipWith(body, k) ==
    [exists |-> TRUE, valid |-> body.valid, entries |-> body.entries,
     written |-> k, total |-> Chunks(body)]

\* ZipFile::enclosed_name of the zip crate: None for a name with a root
\* component or one that climbs above its starting directory at any point;
\* "foo/../bar" is accepted
RECURSIVE EnclosedDepth(_, _)
EnclosedDepth(comps, depth) ==
    IF comps = <<>> THEN depth
    ELSE LET c == Head(comps) IN
         IF c = "/" THEN -1
         ELSE IF c = ".."
              THEN (IF depth = 0 THEN -1 ELSE EnclosedDepth(Tail(comps), depth - 1))
         ELSE IF c = "." THEN EnclosedDepth(Tail(comps), depth)
         ELSE EnclosedDepth(Tail(comps), depth + 1)

enclosed_name_unchecked(name) == name

enclosed_name(name) == IF EnclosedDepth(name, 0) = -1 THEN None ELSE name

\* fs::create_dir_all(path): the directories it creates on the way, besides
\* the file system root and the game directory, which exist
CreateDirAll(path) ==
    {[path |-> Resolve(SubSeq(path, 1, k)), kind |-> "dir"] : k \in 1..Len(path)}
        \ {[path |-> <<>>, kind |-> "dir"], [path |-> Resolve(Dest), kind |-> "dir"]}

\* Path::parent
Parent(path) == SubSeq(path, 1, Len(path) - 1)

FileAt(path) == {[path |-> Resolve(path), kind |-> "file"]}

\* extract_zip_entry on one entry: the possible <<result, what was created>>
ExtractZipEntryOutcomes(entry) ==
    LET enclosed == enclosed_name(entry.name)
        outPath == PathJoin(Dest, enclosed)
    IN  {<<Err("Failed to access zip entry"), {}>>}
        \cup
        (IF enclosed = None THEN {<<Ok(""), {}>>}      \* skip unsafe paths
         ELSE IF entry.dir
              THEN {<<Ok(""), CreateDirAll(outPath)>>,
                    <<Err("Failed to create directory"), {}>>}
              ELSE \* extract_file
                   {<<Err("Failed to create parent directory"), {}>>,
                    <<Err("Failed to create output file"), CreateDirAll(Parent(outPath))>>,
                    <<Err("Failed to extract file"),
                      CreateDirAll(Parent(outPath)) \cup FileAt(outPath)>>,
                    <<Ok(""), CreateDirAll(Parent(outPath)) \cup FileAt(outPath)>>})

-----------------------------------------------------------------------------
(* install_to_wine, step by step *)

EndStep(name, res, nextPc) ==
    /\ steps' = Append(steps, <<name, IsOk(res)>>)
    /\ IF IsOk(res)
       THEN pc' = nextPc /\ result' = result
       ELSE pc' = "done" /\ result' = res

\* install_to_wine is called: validate_paths
InstallToWine ==
    /\ pc \in {"idle", "done"}
    /\ attempts < MaxAttempts
    /\ attempts' = attempts + 1
    /\ \E prefixExists \in BOOLEAN, gameDirExists \in BOOLEAN :
          \* user.reg lives inside the prefix directory
          /\ (reg # NoFile => prefixExists)
          /\ steps' = <<<<"validate", IsOk(validate_paths(prefixExists, gameDirExists))>>>>
          /\ IF IsOk(validate_paths(prefixExists, gameDirExists))
             THEN pc' = "tag" /\ result' = <<"none">>
             ELSE pc' = "done" /\ result' = validate_paths(prefixExists, gameDirExists)
          /\ atStart' = [zip |-> zip, installed |-> installed, reg |-> reg,
                         prefixExists |-> prefixExists,
                         gameDirExists |-> gameDirExists]
    /\ http' = <<>>
    /\ extractLog' = <<>>
    /\ idx' = 0
    /\ tag' = NoValue
    /\ UNCHANGED <<zip, installed, regVars>>

\* install_to_directory: get_download_url / fetch_latest_tag
FetchLatestTag ==
    /\ pc = "tag"
    /\ http' = Append(http, <<GEODE_API_URL>>)
    /\ \E resp \in ApiResponses :
          /\ EndStep("tag", fetch_latest_tag(resp), "mkdir")
          /\ tag' = IF IsOk(fetch_latest_tag(resp)) THEN fetch_latest_tag(resp)[2] ELSE tag
    /\ UNCHANGED <<zip, installed, extractLog, idx, attempts, atStart, regVars>>

\* download_and_extract: fs::create_dir_all(destination)
CreateDestination ==
    /\ pc = "mkdir"
    /\ \E res \in {Ok(""), Err("Failed to create destination directory")} :
          EndStep("mkdir", res, "download")
    /\ UNCHANGED <<http, zip, installed, extractLog, idx, tag, attempts, atStart, regVars>>

\* the temporary file when download_file returns before File::create
ZipCreatedBeforeStatus(z) == [NoZip EXCEPT !.exists = TRUE]

ZipUntouched(z) == z

\* download_file(url, zip_path)
DownloadFile ==
    /\ pc = "download"
    /\ http' = Append(http, DownloadUrl(tag))
    /\ \/ \* send fails
          /\ zip' = ZipUntouched(zip)
          /\ EndStep("download", Err("Download failed"), "open")
       \/ \* non-success status
          /\ zip' = ZipUntouched(zip)
          /\ EndStep("download", Err("HTTP error"), "open")
       \/ \* File::create fails
          /\ zip' = zip
          /\ EndStep("download", Err("Failed to create file"), "open")
       \/ \* the file is created (truncated), then the stream or a write fails
          \E body \in InstallBodies :
          \E k \in 0..(Chunks(body) - 1) :
             /\ zip' = ZipWith(body, k)
             /\ \E msg \in {"Failed to read response", "Failed to write file"} :
                   EndStep("download", Err(msg), "open")
       \/ \* the whole body is written
          \E body \in InstallBodies :
             /\ zip' = ZipWith(body, Chunks(body))
             /\ EndStep("download", Ok(""), "open")
    /\ UNCHANGED <<installed, extractLog, idx, tag, attempts, atStart, regVars>>

\* extract_zip: File::open and ZipArchive::new
OpenZip ==
    /\ pc = "open"
    /\ \/ /\ ~(zip.exists /\ zip.valid /\ zip.written = zip.total)
          /\ \E msg \in {"Failed to open zip file", "Failed to read zip archive"} :
                EndStep("extract", Err(msg), "remove")
          /\ idx' = idx
       \/ /\ zip.exists /\ zip.valid /\ zip.written = zip.total
          /\ zip.entries = <<>>
          /\ EndStep("extract", Ok(""), "remove")
          /\ idx' = idx
       \/ /\ zip.exists /\ zip.valid /\ zip.written = zip.total
          /\ zip.entries # <<>>
          /\ pc' = "entries"
          /\ idx' = 1
          /\ UNCHANGED <<steps, result>>
    /\ UNCHANGED <<http, zip, installed, extractLog, tag, attempts, atStart, regVars>>

\* extract_zip: one iteration of the loop, extract_zip_entry(archive, i, destination)
ExtractZipEntry ==
    /\ pc = "entries"
    /\ \E out \in ExtractZipEntryOutcomes(zip.entries[idx]) :
          /\ installed' = installed \cup out[2]
          /\ extractLog' = Append(extractLog, out[2])
          /\ IF IsOk(out[1]) /\ idx < Len(zip.entries)
             THEN /\ idx' = idx + 1
                  /\ UNCHANGED <<pc, steps, result>>
             ELSE /\ idx' = idx
                  /\ EndStep("extract", out[1], "remove")
    /\ UNCHANGED <<http, zip, tag, attempts, atStart, regVars>>

\* download_and_extract: fs::remove_file(zip_path)
RemoveZip ==
    /\ pc = "remove"
    /\ \/ /\ zip' = NoZip
          /\ EndStep("remove", Ok(""), "patch")
       \/ /\ zip' = zip
          /\ EndStep("remove", Err("Failed to remove temporary zip file"), "patch")
    /\ UNCHANGED <<http, installed, extractLog, idx, tag, attempts, atStart, regVars>>

\* install_to_wine: patch_wine_registry(prefix), then Ok(())
PatchStep ==
    /\ pc = "patch"
    /\ PatchWineRegistry
    /\ steps' = Append(steps, <<"patch", regLast'.ok>>)
    /\ pc' = "done"
    /\ result' = IF regLast'.ok THEN <<"ok">> ELSE Err("patch_wine_registry failed")
    /\ UNCHANGED <<http, zip, installed, extractLog, idx, tag, attempts, atStart>>

InstStart ==
    /\ pc = "idle"
    /\ result = <<"none">>
    /\ steps = <<>>
    /\ http = <<>>
    /\ zip = NoZip
    /\ installed = {}
    /\ extractLog = <<>>
    /\ idx = 0
    /\ tag = NoValue
    /\ attempts = 0
    /\ atStart = [zip |-> NoZip, installed |-> {}, reg |-> NoFile,
                  prefixExists |-> FALSE, gameDirExists |-> FALSE]

InstallRegs == {NoFile, <<>>, <<SECTION, NL>>, <<MARKER, TXT>>}

-----------------------------------------------------------------------------
(* VdfParser *)

QUOTE == "\""

\* chars[*pos] with the code's 0-based index
At(chars, pos) == chars[pos + 1]

\* char::is_whitespace, on the characters of the model
IsWhitespace(c) == c \in {" ", "\t", "\r", "\n"}

\* HashMap<String, String>: a function from keys to values
EmptyDoc == << >>

\* HashMap::insert
Insert(doc, key, value) ==
    [k \in DOMAIN doc \cup {key} |-> IF k = key THEN value ELSE doc[k]]

RECURSIVE skip_whitespace(_, _)
skip_whitespace(chars, pos) ==
    IF pos < Len(chars) /\ IsWhitespace(At(chars, pos))
    THEN skip_whitespace(chars, pos + 1)
    ELSE pos

\* the test of skip_comment
IsComment(chars, pos) ==
    pos + 1 < Len(chars) /\ At(chars, pos) = "/" /\ At(chars, pos + 1) = "/"

\* the loop of skip_comment
RECURSIVE SkipLine(_, _)
SkipLine(chars, pos) ==
    IF pos < Len(chars) /\ At(chars, pos) # "\n"
    THEN SkipLine(chars, pos + 1)
    ELSE pos

RECURSIVE ReadUntilQuote(_, _, _)
ReadUntilQuote(chars, pos, s) ==
    IF pos < Len(chars) /\ At(chars, pos) # QUOTE
    THEN ReadUntilQuote(chars, pos + 1, Append(s, At(chars, pos)))
    ELSE [s |-> s, pos |-> pos]

read_quoted_string(chars, pos) ==
    LET r == ReadUntilQuote(chars, pos, <<>>)
    IN  [s |-> r.s, pos |-> r.pos + 1]      \* skip closing quote

build_key_bare(prefix, key) == key

build_key(prefix, key) ==
    IF prefix = <<>> THEN key ELSE prefix \o <<".">> \o key

RECURSIVE parse_recursive(_, _, _, _)
RECURSIVE parse_key_value(_, _, _, _)

\* the loop of parse_recursive from position pos on; the value is the cursor
\* and the map when this call returns
parse_recursive(chars, pos, map, prefix) ==
    IF ~(pos < Len(chars)) THEN [pos |-> pos, result |-> map]
    ELSE LET p == skip_whitespace(chars, pos) IN
         IF p >= Len(chars) THEN [pos |-> p, result |-> map]
         ELSE IF IsComment(chars, p)
              THEN parse_recursive(chars, SkipLine(chars, p), map, prefix)
         ELSE IF At(chars, p) = "}"                  \* handle_closing_brace
              THEN [pos |-> p + 1, result |-> map]
         ELSE IF At(chars, p) = "{"                  \* handle_opening_brace
              THEN parse_recursive(chars, p + 1, map, prefix)
         ELSE IF At(chars, p) = QUOTE
              THEN LET kv == parse_key_value(chars, p, map, prefix)
                   IN  parse_recursive(chars, kv.pos, kv.result, prefix)
         ELSE parse_recursive(chars, p + 1, map, prefix)

parse_key_value(chars, pos, map, prefix) ==
    LET key == read_quoted_string(chars, pos + 1)    \* skip opening quote
        p == skip_whitespace(chars, key.pos)
    IN  IF p < Len(chars) /\ At(chars, p) = QUOTE
        THEN LET value == read_quoted_string(chars, p + 1)
             IN  [pos |-> value.pos,
                  result |-> Insert(map, build_key(prefix, key.s), value.s)]
        ELSE IF p < Len(chars) /\ At(chars, p) = "{"
             THEN parse_recursive(chars, p + 1, map, build_key(prefix, key.s))
             ELSE [pos |-> p, result |-> map]

\* parse_file on a file with this content (NoFile: missing or unreadable)
parse_file(content) ==
    IF content = NoFile THEN EmptyDoc
    ELSE parse_recursive(content, 0, EmptyDoc, <<>>).result

-----------------------------------------------------------------------------
(* Texts to parse: written from a sequence of leaves, block openings and
   block closings *)

Leaf(k, v) == [t |-> "leaf", k |-> k, v |-> v]
Open(k) == [t |-> "open", k |-> k, v |-> <<>>]
AnonOpen == [t |-> "anon", k |-> <<>>, v |-> <<>>]
Close == [t |-> "close", k |-> <<>>, v |-> <<>>]

Syms ==
    {Leaf(<<"B">>, <<"C">>), Leaf(<<"B">>, <<"D">>),
     Open(<<"A">>), Open(<<>>), AnonOpen, Close}

\* every closing has its opening and every opening is closed
RECURSIVE BalancedFrom(_, _)
BalancedFrom(syms, depth) ==
    IF syms = <<>> THEN depth = 0
    ELSE IF Head(syms).t \in {"open", "anon"} THEN BalancedFrom(Tail(syms), depth + 1)
    ELSE IF Head(syms).t = "close"
         THEN depth > 0 /\ BalancedFrom(Tail(syms), depth - 1)
    ELSE BalancedFrom(Tail(syms), depth)

Balanced(syms) == BalancedFrom(syms, 0)

\* white space between items, between a key and its value, between a key
\* and its brace
Layouts ==
    {[sep |-> <<>>, leafGap |-> <<" ">>, openGap |-> <<>>],
     [sep |-> <<"\n", "\t">>, leafGap |-> <<"\t", "\t">>, openGap |-> <<"\n">>],
     [sep |-> <<>>, leafGap |-> <<>>, openGap |-> <<>>]}

Render(sym, layout) ==
    IF sym.t = "leaf"
    THEN <<QUOTE>> \o sym.k \o <<QUOTE>> \o layout.leafGap
             \o <<QUOTE>> \o sym.v \o <<QUOTE>>
    ELSE IF sym.t = "open"
         THEN <<QUOTE>> \o sym.k \o <<QUOTE>> \o layout.openGap \o <<"{">>
    ELSE IF sym.t = "anon" THEN <<"{">>
    ELSE <<"}">>

RECURSIVE RenderAll(_, _)
RenderAll(syms, layout) ==
    IF syms = <<>> THEN <<>>
    ELSE Render(Head(syms), layout)
             \o (IF Tail(syms) = <<>> THEN <<>> ELSE layout.sep)
             \o RenderAll(Tail(syms), layout)

\* VdfParser::parse_file on the text
ParseText ==
    /\ ~vdfDone
    /\ vdfOut' = parse_recursive(vdfText, 0, EmptyDoc, <<>>)
    /\ vdfDone' = TRUE
    /\ UNCHANGED <<vdfSyms, vdfText>>

VdfStart ==
    /\ vdfSyms = <<>>
    /\ vdfText = <<>>
    /\ vdfOut = [pos |-> 0, result |-> EmptyDoc]
    /\ vdfDone = FALSE

-----------------------------------------------------------------------------
(* VdfParser, one loop iteration at a time *)

OutOfBounds == "<out of bounds>"

\* chars[i] where the code does not test the index first
Read(chars, i) == IF i < Len(chars) THEN chars[i + 1] ELSE OutOfBounds

\* the indices a loop of the form
\*     while *pos < chars.len() && <test of chars[*pos]> { *pos += 1 }
\* reads when it starts at from and stops at to
LoopReads(chars, from, to) == from .. Min({to, Len(chars) - 1})

\* the indices the test of skip_comment reads
CommentTestReads(chars, pos) ==
    IF pos + 1 < Len(chars)
    THEN {pos} \cup (IF At(chars, pos) = "/" THEN {pos + 1} ELSE {})
    ELSE {}

\* the break of parse_recursive after skip_whitespace, without the test
AtEndNever(chars, pos) == FALSE

\* the break of parse_recursive after skip_whitespace
AtEnd(chars, pos) == pos >= Len(chars)

\* parse_key_value with the cursor on an opening quote: what the step did
\* (stored a leaf, called parse_recursive for a block, or neither), the
\* cursor after it and the indices read
KeyValueStep(chars, pos, prefix) ==
    LET key == read_quoted_string(chars, pos + 1)
        p == skip_whitespace(chars, key.pos)
        keyReads == LoopReads(chars, pos + 1, key.pos - 1)
                        \cup LoopReads(chars, key.pos, p)
        value == read_quoted_string(chars, p + 1)
    IN  IF p < Len(chars) /\ At(chars, p) = QUOTE
        THEN [kind |-> "store", pos |-> value.pos,
              key |-> build_key(prefix, key.s), value |-> value.s,
              reads |-> keyReads \cup LoopReads(chars, p + 1, value.pos - 1)]
        ELSE IF p < Len(chars) /\ At(chars, p) = "{"
             THEN [kind |-> "call", pos |-> p + 1,
                   key |-> build_key(prefix, key.s), value |-> <<>>,
                   reads |-> keyReads]
        ELSE [kind |-> "continue", pos |-> p, key |-> <<>>, value |-> <<>>,
              reads |-> keyReads]

\* one iteration of the loop of parse_recursive, entered with pos < len
Iteration(chars, pos, prefix) ==
    LET p == skip_whitespace(chars, pos)
        wsReads == LoopReads(chars, pos, p)
        plain(kind, to, reads) ==
            [kind |-> kind, pos |-> to, key |-> <<>>, value |-> <<>>, reads |-> reads]
    IN  IF AtEnd(chars, p) THEN plain("break", p, wsReads)
        ELSE IF IsComment(chars, p)
             THEN plain("continue", SkipLine(chars, p),
                        wsReads \cup CommentTestReads(chars, p)
                            \cup LoopReads(chars, p, SkipLine(chars, p)))
        ELSE LET reads == wsReads \cup CommentTestReads(chars, p) \cup {p}
             IN  IF Read(chars, p) = "}" THEN plain("return", p + 1, reads)
                 ELSE IF Read(chars, p) = "{" THEN plain("continue", p + 1, reads)
                 ELSE IF Read(chars, p) = QUOTE
                      THEN LET kv == KeyValueStep(chars, p, prefix)
                           IN  [kv EXCEPT !.reads = reads \cup kv.reads]
                 ELSE plain("continue", p + 1, reads)

Frame(prefix, entry) == [prefix |-> prefix, entry |-> entry]

\* the innermost call returns; the parse has returned when it was the
\* call made by parse_file
PopFrame ==
    /\ frames' = SubSeq(frames, 1, Len(frames) - 1)
    /\ ppc' = IF Len(frames) = 1 THEN "returned" ELSE "run"

\* one iteration of the innermost call's loop
ParseIteration ==
    /\ ppc = "run"
    /\ cursor < Len(vdfText)
    /\ \E it \in {Iteration(vdfText, cursor, frames[Len(frames)].prefix)} :
           /\ cursor' = it.pos
           /\ lastStep' = [kind |-> it.kind, from |-> cursor, to |-> it.pos,
                           reads |-> it.reads]
           /\ IF it.kind = "store"
              THEN /\ parsed' = Insert(parsed, it.key, it.value)
                   /\ stored' = Append(stored, <<it.key, it.value>>)
              ELSE UNCHANGED <<parsed, stored>>
           /\ IF it.kind \in {"break", "return"} THEN PopFrame
              ELSE IF it.kind = "call"
                   THEN /\ frames' = Append(frames, Frame(it.key, it.pos))
                        /\ ppc' = "run"
              ELSE UNCHANGED <<frames, ppc>>
    /\ UNCHANGED <<vdfSyms, vdfText, vdfOut, vdfDone>>

\* the innermost call finds the cursor at or past the end: its loop is over
ParseLoopEnd ==
    /\ ppc = "run"
    /\ cursor >= Len(vdfText)
    /\ PopFrame
    /\ lastStep' = [kind |-> "end", from |-> cursor, to |-> cursor, reads |-> {}]
    /\ UNCHANGED <<cursor, parsed, stored>>
    /\ UNCHANGED <<vdfSyms, vdfText, vdfOut, vdfDone>>

\* parse_file has set pos to 0 and called parse_recursive with no prefix
StepStart ==
    /\ ppc = "run"
    /\ cursor = 0
    /\ parsed = EmptyDoc
    /\ frames = <<Frame(<<>>, 0)>>
    /\ stored = <<>>
    /\ lastStep = [kind |-> "start", from |-> 0, to |-> 0, reads |-> {}]

\* the characters of the texts: a quote, the braces, a slash, a line end
\* (white space), a letter
ParseAlphabet == {QUOTE, "{", "}", "/", "\n", "a"}

\* longer texts, cut off after any number of characters: a block with a
\* nested block, a repeated key and a leaf after the block, in each layout
SampleSyms ==
    <<Open(<<"A">>), Leaf(<<"B">>, <<"C">>), Open(<<"A">>), Leaf(<<"B">>, <<"C">>),
      Close, Leaf(<<"B">>, <<"D">>), Close, Leaf(<<"B">>, <<"C">>)>>

TruncatedTexts ==
    UNION {{SubSeq(RenderAll(SampleSyms, layout), 1, n) :
               n \in 0..Len(RenderAll(SampleSyms, layout))} : layout \in Layouts}

-----------------------------------------------------------------------------
(* Texts with comments: the same structures, with a comment in the gaps
   between tokens, before the first token or after the last *)

CommentedSyms == {Leaf(<<"B">>, <<"C">>), Leaf(<<"B">>, <<"D">>), Open(<<"A">>), Close}

\* a gap between two tokens: white space, or a comment up to the end of the
\* line (with text that would be a token outside a comment)
Gaps ==
    {<<" ">>, <<"/", "/", "\n">>, <<" ", "/", "/", QUOTE, "x", "{", "\n">>}

CommentLayouts == [sep : Gaps, leafGap : Gaps, openGap : Gaps]

\* what may stand before the first token and after the last
Leads == {<<>>, <<"/", "/", "x", "\n">>}
Trails == {<<>>, <<"/", "/", "x">>, <<"/">>}

-----------------------------------------------------------------------------
(* SteamGameFinder: paths and the file system *)

\* A path is its text, cut into tokens: SEP is the separator, HOME the text
\* my_home() returned (an absolute path), every other token a piece of a
\* name. The paths of the model are absolute and have no ".." component.
SEP == "/"
HOME == "~"

is_absolute(path) == path # <<>> /\ path[1] \in {SEP, HOME}

\* Path::join: an absolute argument replaces the path, otherwise it is
\* appended, after a separator unless the path ends with one
join(base, rel) ==
    IF is_absolute(rel) THEN rel
    ELSE IF base = <<>> \/ base[Len(base)] = SEP THEN base \o rel
    ELSE base \o <<SEP>> \o rel

\* the pieces of a path between its separators
RECURSIVE Pieces(_, _)
Pieces(path, cur) ==
    IF path = <<>> THEN <<cur>>
    ELSE IF Head(path) = SEP THEN <<cur>> \o Pieces(Tail(path), <<>>)
    ELSE Pieces(Tail(path), Append(cur, Head(path)))

\* Path::components: empty pieces and "." name no step
Components(path) ==
    SelectSeq(Pieces(path, <<>>), LAMBDA c : c # <<>> /\ c # <<".">>)

IsPrefix(a, b) == Len(a) <= Len(b) /\ SubSeq(b, 1, Len(a)) = a

\* the directory entry a path leads to, symbolic links followed
RECURSIVE Follow(_, _)
Follow(links, comps) ==
    IF \E l \in links : IsPrefix(l.from, comps)
    THEN LET l == CHOOSE k \in links : IsPrefix(k.from, comps)
         IN  Follow(links, l.to \o SubSeq(comps, Len(l.from) + 1, Len(comps)))
    ELSE comps

Canonical(d, path) == Follow(d.links, Components(path))

\* Path::exists
exists(d, path) ==
    \/ Canonical(d, path) \in d.dirs
    \/ Canonical(d, path) \in DOMAIN d.files

\* fs::read_to_string; NoFile when it fails
read_to_string(d, path) ==
    IF Canonical(d, path) \in DOMAIN d.files
    THEN d.files[Canonical(d, path)] ELSE NoFile

-----------------------------------------------------------------------------
(* SteamGameFinder: the functions *)

STEAMAPPS == <<"steamapps">>

Candidates ==
    <<join(<<HOME>>, <<".steam", SEP, "steam">>),
      join(<<HOME>>, <<".steam", SEP, "root">>),
      join(<<HOME>>, <<".local", SEP, "share", SEP, "Steam">>),
      join(<<HOME>>, <<".var", SEP, "app", SEP, "com.valvesoftware.Steam">>),
      join(<<HOME>>, <<".var", SEP, "app", SEP, "com.valvesoftware.Steam",
                       SEP, "data", SEP, "Steam">>),
      <<SEP, "usr", SEP, "share", SEP, "steam">>>>

find_steam_root(d) ==
    LET hits == {i \in 1..Len(Candidates) :
                    /\ exists(d, Candidates[i])
                    /\ exists(d, join(Candidates[i], STEAMAPPS))}
    IN  IF ~d.home \/ hits = {} THEN None ELSE Candidates[Min(hits)]

LibraryFile(root) ==
    join(root, <<"steamapps", SEP, "libraryfolders.vdf">>)

\* the document parse_library_folders_vdf iterates over
LibraryData(d, root) ==
    IF root = None \/ ~exists(d, LibraryFile(root)) THEN EmptyDoc
    ELSE parse_file(read_to_string(d, LibraryFile(root)))

\* the orders a HashMap may be iterated in
RECURSIVE Orders(_)
Orders(S) ==
    IF S = {} THEN {<<>>}
    ELSE UNION {{<<x>> \o rest : rest \in Orders(S \ {x})} : x \in S}

\* filter and filter_map over the entries, in the order of iteration
RECURSIVE LibraryPaths(_, _, _)
LibraryPaths(d, data, order) ==
    IF order = <<>> THEN <<>>
    ELSE LET key == Head(order)
             path == join(data[key], STEAMAPPS)
         IN  (IF Contains(key, <<".", "path">>) /\ exists(d, path)
              THEN <<path>> ELSE <<>>)
                 \o LibraryPaths(d, data, Tail(order))

parse_library_folders_vdf(d, root, order) ==
    LibraryPaths(d, LibraryData(d, root), order)

\* seen holds the texts of the paths kept so far
RECURSIVE Dedup(_, _)
Dedup(paths, seen) ==
    IF paths = <<>> THEN <<>>
    ELSE IF Head(paths) \in seen THEN Dedup(Tail(paths), seen)
    ELSE <<Head(paths)>> \o Dedup(Tail(paths), seen \cup {Head(paths)})

deduplicate_paths(paths) == Dedup(paths, {})

discover_library_folders(d, root, order) ==
    IF root = None THEN <<>>
    ELSE deduplicate_paths(<<join(root, STEAMAPPS)>>
                               \o parse_library_folders_vdf(d, root, order))

INSTALLDIR_KEY == <<"AppState", ".", "installdir">>

AcfFile(library_path, app) == join(library_path, <<"appmanifest_", app, ".acf">>)

GamePath(library_path, install_dir) ==
    join(join(library_path, <<"common">>), install_dir)

\* a variant that returns the path without looking for the directory
check_library_for_game_unchecked(d, library_path, app) ==
    LET acf_data == parse_file(read_to_string(d, AcfFile(library_path, app)))
    IN  IF ~exists(d, AcfFile(library_path, app)) THEN None
        ELSE IF INSTALLDIR_KEY \notin DOMAIN acf_data THEN None
        ELSE <<GamePath(library_path, acf_data[INSTALLDIR_KEY]), library_path>>

check_library_for_game(d, library_path, app) ==
    LET acf_data == parse_file(read_to_string(d, AcfFile(library_path, app)))
    IN  IF ~exists(d, AcfFile(library_path, app)) THEN None
        ELSE IF INSTALLDIR_KEY \notin DOMAIN acf_data THEN None
        ELSE IF exists(d, GamePath(library_path, acf_data[INSTALLDIR_KEY]))
             THEN <<GamePath(library_path, acf_data[INSTALLDIR_KEY]), library_path>>
        ELSE None

check_compatdata(d, library_path, app) ==
    LET compatdata_path ==
            join(join(join(library_path, <<"compatdata">>), <<app>>), <<"pfx">>)
    IN  IF exists(d, compatdata_path) THEN compatdata_path ELSE None

find_proton_prefix(d, folders, app, preferred_library) ==
    LET hits == {i \in 1..Len(folders) : check_compatdata(d, folders[i], app) # None}
    IN  IF check_compatdata(d, preferred_library, app) # None
        THEN check_compatdata(d, preferred_library, app)
        ELSE IF hits = {} THEN None
        ELSE check_compatdata(d, folders[Min(hits)], app)

NoGameInfo == [found |-> FALSE]

GameInfo(app, game_path, library_path, proton_prefix) ==
    [found |-> TRUE, app_id |-> app, game_path |-> game_path,
     library_path |-> library_path, proton_prefix |-> proton_prefix]

-----------------------------------------------------------------------------
(* SteamGameFinder: the steps of new() and get_game_info() *)

FindSteamRoot ==
    /\ fpc = "new"
    /\ steam_root' = find_steam_root(disk)
    /\ fpc' = "discover"
    /\ UNCHANGED <<disk, library_folders, app_id, scanIdx, consulted, game_info>>

DiscoverLibraryFolders ==
    /\ fpc = "discover"
    /\ \E order \in Orders(DOMAIN LibraryData(disk, steam_root)) :
          library_folders' = discover_library_folders(disk, steam_root, order)
    /\ fpc' = "ready"
    /\ UNCHANGED <<disk, steam_root, app_id, scanIdx, consulted, game_info>>

GD_APP_ID == "322170"
AppIds == {GD_APP_ID, "70"}

\* get_game_info enters find_game_by_appid
GetGameInfo ==
    /\ fpc = "ready"
    /\ \E app \in AppIds : app_id' = app
    /\ scanIdx' = 1
    /\ consulted' = <<>>
    /\ fpc' = "scan"
    /\ UNCHANGED <<disk, steam_root, library_folders, game_info>>

\* one turn of find_game_by_appid's loop; on a hit get_game_info looks for
\* the prefix and returns
CheckLibraryForGame ==
    /\ fpc = "scan"
    /\ scanIdx <= Len(library_folders)
    /\ LET library_path == library_folders[scanIdx]
           hit == check_library_for_game(disk, library_path, app_id)
       IN  /\ consulted' = Append(consulted, library_path)
           /\ IF hit # None
              THEN /\ game_info' = GameInfo(app_id, hit[1], hit[2],
                           find_proton_prefix(disk, library_folders, app_id, hit[2]))
                   /\ fpc' = "done"
                   /\ scanIdx' = scanIdx
              ELSE /\ scanIdx' = scanIdx + 1
                   /\ UNCHANGED <<game_info, fpc>>
    /\ UNCHANGED <<disk, steam_root, library_folders, app_id>>

\* the loop ran out of libraries: find_game_by_appid and get_game_info
\* return None
GameNotFound ==
    /\ fpc = "scan"
    /\ scanIdx > Len(library_folders)
    /\ game_info' = NoGameInfo
    /\ fpc' = "done"
    /\ UNCHANGED <<disk, steam_root, library_folders, app_id, scanIdx, consulted>>

EmptyDisk == [home |-> TRUE, dirs |-> {}, links |-> {}, files |-> << >>]

FinderStart ==
    /\ fpc = "new"
    /\ steam_root = None
    /\ library_folders = <<>>
    /\ app_id = ""
    /\ scanIdx = 0
    /\ consulted = <<>>
    /\ game_info = NoGameInfo

-----------------------------------------------------------------------------
(* SteamGameFinder: the file systems it is run on *)

Link(from, to) == [from |-> Components(from), to |-> Components(to)]
DirsOf(paths) == {Components(p) : p \in paths}

\* where Steam is: nowhere; ~/.local/share/Steam with the usual links
\* ~/.steam/steam and ~/.steam/root; the same without links; ~/.steam/steam
\* without steamapps beside a real ~/.steam/root; the Flatpak directories;
\* /usr/share/steam with the home directory unknown, and known
RootLayouts ==
    {[home |-> TRUE, dirs |-> {}, links |-> {}],
     [home |-> TRUE,
      dirs |-> DirsOf({Candidates[3], join(Candidates[3], STEAMAPPS)}),
      links |-> {Link(Candidates[1], Candidates[3]),
                 Link(Candidates[2], Candidates[3])}],
     [home |-> TRUE,
      dirs |-> DirsOf({Candidates[3], join(Candidates[3], STEAMAPPS)}),
      links |-> {}],
     [home |-> TRUE,
      dirs |-> DirsOf({Candidates[1], Candidates[2],
                       join(Candidates[2], STEAMAPPS)}),
      links |-> {}],
     [home |-> TRUE,
      dirs |-> DirsOf({Candidates[4], Candidates[5],
                       join(Candidates[5], STEAMAPPS)}),
      links |-> {}],
     [home |-> FALSE,
      dirs |-> DirsOf({Candidates[6], join(Candidates[6], STEAMAPPS)}),
      links |-> {}],
     [home |-> TRUE,
      dirs |-> DirsOf({Candidates[6], join(Candidates[6], STEAMAPPS)}),
      links |-> {}]}

\* a second library, and the values a "path" entry of the descriptor may have
LIB == <<SEP, "lib">>

DescriptorValues ==
    {Candidates[1], Candidates[3], LIB, LIB \o <<SEP>>, LIB \o <<SEP, ".">>,
     <<SEP, "gone">>}

\* the layout Steam writes its files in
SteamLayout == [sep |-> <<"\n", "\t">>, leafGap |-> <<"\t", "\t">>, openGap |-> <<"\n">>]

RECURSIVE FolderSyms(_, _)
FolderSyms(values, n) ==
    IF values = <<>> THEN <<>>
    ELSE <<Open(<<ToString(n)>>), Leaf(<<"path">>, Head(values)), Close>>
             \o FolderSyms(Tail(values), n + 1)

\* libraryfolders.vdf listing the values
DescriptorText(values) ==
    RenderAll(<<Open(<<"libraryfolders">>), Leaf(<<"contentstatsid">>, <<"0">>)>>
                  \o FolderSyms(values, 0) \o <<Close>>,
              SteamLayout)

GAME == <<"Geometry Dash">>
ELSEWHERE == <<SEP, "opt", SEP, "GD">>

\* appmanifest_<appid>.acf: with installdir inside AppState, without
\* installdir, with installdir outside AppState, with an absolute installdir
ManifestKinds == {"nested", "bare", "top", "absolute"}

ManifestText(kind) ==
    RenderAll(
        IF kind = "nested"
        THEN <<Open(<<"AppState">>), Leaf(<<"appid">>, <<GD_APP_ID>>),
               Leaf(<<"installdir">>, GAME), Close>>
        ELSE IF kind = "bare"
             THEN <<Open(<<"AppState">>), Leaf(<<"appid">>, <<GD_APP_ID>>), Close>>
        ELSE IF kind = "top" THEN <<Leaf(<<"installdir">>, GAME)>>
        ELSE <<Open(<<"AppState">>), Leaf(<<"installdir">>, ELSEWHERE), Close>>,
        SteamLayout)

\* what a library holds of the game: its manifest, its directory under
\* common, its prefix under compatdata
Content(manifest, game, pfx) == [manifest |-> manifest, game |-> game, pfx |-> pfx]

PlainContent == Content("absent", FALSE, FALSE)

LibContents ==
    {PlainContent, Content("absent", FALSE, TRUE),
     Content("nested", TRUE, TRUE), Content("nested", TRUE, FALSE),
     Content("nested", FALSE, FALSE), Content("bare", TRUE, FALSE),
     Content("top", TRUE, FALSE), Content("absolute", FALSE, FALSE)}

ManifestName == <<<<"appmanifest_", GD_APP_ID, ".acf">>>>

\* the directories and files of one library (libs holds its canonical
\* path, or nothing when the library is not there)
LibDirs(libs, content) ==
    {lib \o <<<<"common">>, GAME>> : lib \in {l \in libs : content.game}}
        \cup {lib \o <<<<"compatdata">>, <<GD_APP_ID>>, <<"pfx">>>> :
                 lib \in {l \in libs : content.pfx}}

LibFiles(libs, content) ==
    {lib \o ManifestName : lib \in {l \in libs : content.manifest # "absent"}}

World(layout, libThere, described, values, rootContent, libContent) ==
    LET bare == [home |-> layout.home, dirs |-> layout.dirs,
                 links |-> layout.links, files |-> << >>]
        root == find_steam_root(bare)
        rootApps == IF root = None THEN {}
                    ELSE {Canonical(bare, join(root, STEAMAPPS))}
        libApps == IF libThere THEN {Components(join(LIB, STEAMAPPS))} ELSE {}
        descriptor == IF described
                      THEN {lib \o <<<<"libraryfolders.vdf">>>> : lib \in rootApps}
                      ELSE {}
        rootFiles == LibFiles(rootApps, rootContent)
        libFiles == LibFiles(libApps, libContent)
    IN  [home |-> layout.home,
         links |-> layout.links,
         dirs |-> layout.dirs \cup libApps \cup {Components(ELSEWHERE)}
                     \cup LibDirs(rootApps, rootContent)
                     \cup LibDirs(libApps, libContent),
         files |-> [f \in descriptor \cup rootFiles \cup libFiles |->
                       IF f \in descriptor THEN DescriptorText(values)
                       ELSE IF f \in rootFiles THEN ManifestText(rootContent.manifest)
                       ELSE ManifestText(libContent.manifest)]]

\* the descriptors the libraries' contents are varied under
GameDescriptors == {<<LIB>>, <<Candidates[3], LIB>>, <<LIB, LIB \o <<SEP, ".">>>>}

\* descriptors whose entries differ in their keys: "path" "<value>",
\* "paths" "<value>", "path" { "old" "<value>" } and "label" "<value>"
EntryKinds == {"path", "paths", "nested", "label"}

KeyedValues == {LIB, <<SEP, "gone">>}

KeyedEntries == [kind : EntryKinds, value : KeyedValues]

KeyedSyms(entry) ==
    IF entry.kind = "path" THEN <<Leaf(<<"path">>, entry.value)>>
    ELSE IF entry.kind = "paths" THEN <<Leaf(<<"path", "s">>, entry.value)>>
    ELSE IF entry.kind = "nested"
         THEN <<Open(<<"path">>), Leaf(<<"old">>, entry.value), Close>>
    ELSE <<Leaf(<<"label">>, entry.value)>>

RECURSIVE KeyedFolderSyms(_, _)
KeyedFolderSyms(entries, n) ==
    IF entries = <<>> THEN <<>>
    ELSE <<Open(<<ToString(n)>>)>> \o KeyedSyms(Head(entries)) \o <<Close>>
             \o KeyedFolderSyms(Tail(entries), n + 1)

KeyedDescriptorText(entries) ==
    RenderAll(<<Open(<<"libraryfolders">>)>> \o KeyedFolderSyms(entries, 0)
                  \o <<Close>>,
              SteamLayout)

\* the world of a layout with the second library there, plain libraries and
\* this descriptor
KeyedWorld(layout, entries) ==
    LET plain == World(layout, TRUE, TRUE, <<>>, PlainContent, PlainContent)
    IN  [plain EXCEPT !.files = [f \in DOMAIN plain.files |->
                                    KeyedDescriptorText(entries)]]

-----------------------------------------------------------------------------
(* The specifications *)

\* the registry patch alone, on every user.reg of the bound
RegInit ==
    /\ reg \in SeqsUpTo(RegAlphabet, MaxRegLen) \cup {NoFile}
    /\ RegStart
    /\ disk = EmptyDisk
    /\ FinderStart
    /\ StepStart
    /\ InstStart
    /\ VdfStart

RegNext == PatchWineRegistry /\ UNCHANGED <<instVars, vdfVars, finderVars, stepVars>>

SpecReg == RegInit /\ [][RegNext]_vars

\* install_to_wine, called up to MaxAttempts times
InstInit ==
    /\ reg \in InstallRegs
    /\ RegStart
    /\ disk = EmptyDisk
    /\ FinderStart
    /\ StepStart
    /\ InstStart
    /\ VdfStart

InstNext ==
    \/ InstallToWine /\ UNCHANGED <<vdfVars, finderVars, stepVars>>
    \/ FetchLatestTag /\ UNCHANGED <<vdfVars, finderVars, stepVars>>
    \/ CreateDestination /\ UNCHANGED <<vdfVars, finderVars, stepVars>>
    \/ DownloadFile /\ UNCHANGED <<vdfVars, finderVars, stepVars>>
    \/ OpenZip /\ UNCHANGED <<vdfVars, finderVars, stepVars>>
    \/ ExtractZipEntry /\ UNCHANGED <<vdfVars, finderVars, stepVars>>
    \/ RemoveZip /\ UNCHANGED <<vdfVars, finderVars, stepVars>>
    \/ PatchStep /\ UNCHANGED <<vdfVars, finderVars, stepVars>>

SpecInstall == InstInit /\ [][InstNext]_vars

\* extract_zip alone, on every archive of the bound: the state after
\* download_file has written the whole body
ZipInit ==
    /\ reg \in {<<>>}
    /\ RegStart
    /\ disk = EmptyDisk
    /\ FinderStart
    /\ StepStart
    /\ VdfStart
    /\ pc = "open"
    /\ result = <<"none">>
    /\ \E t \in Tags :
          /\ tag = t
          /\ http = <<<<GEODE_API_URL>>, DownloadUrl(t)>>
    /\ steps = <<<<"validate", TRUE>>, <<"tag", TRUE>>, <<"mkdir", TRUE>>,
                 <<"download", TRUE>>>>
    /\ \E body \in Bodies : zip = ZipWith(body, Chunks(body))
    /\ installed = {}
    /\ extractLog = <<>>
    /\ idx = 0
    /\ attempts = 1
    /\ atStart = [zip |-> NoZip, installed |-> {}, reg |-> <<>>,
                  prefixExists |-> TRUE, gameDirExists |-> TRUE]

ZipNext ==
    \/ OpenZip /\ UNCHANGED <<vdfVars, finderVars, stepVars>>
    \/ ExtractZipEntry /\ UNCHANGED <<vdfVars, finderVars, stepVars>>

SpecZip == ZipInit /\ [][ZipNext]_vars

\* VdfParser on the texts written from every structure of the bound
VdfInit ==
    /\ reg = NoFile
    /\ RegStart
    /\ disk = EmptyDisk
    /\ FinderStart
    /\ StepStart
    /\ InstStart
    /\ vdfSyms \in {syms \in SeqsUpTo(Syms, MaxSyms) : Balanced(syms)}
    /\ \E layout \in Layouts : vdfText = RenderAll(vdfSyms, layout)
    /\ vdfOut = [pos |-> 0, result |-> EmptyDoc]
    /\ vdfDone = FALSE

VdfNext == ParseText /\ UNCHANGED <<regVars, instVars, finderVars, stepVars>>

SpecVdf == VdfInit /\ [][VdfNext]_vars

\* SteamGameFinder: new() and then one get_game_info call, on every descriptor
\* of the bound with plain libraries, and on every content of the two
\* libraries with a few descriptors
FinderInit ==
    /\ reg = NoFile
    /\ RegStart
    /\ FinderStart
    /\ StepStart
    /\ InstStart
    /\ VdfStart
    /\ \E layout \in RootLayouts :
          \/ \E libThere, described \in BOOLEAN :
                \E values \in SeqsUpTo(DescriptorValues, MaxFolders) :
                   /\ (~described => values = <<>>)
                   /\ disk = World(layout, libThere, described, values,
                                   PlainContent, PlainContent)
          \/ \E values \in GameDescriptors :
                \E rootContent, libContent \in LibContents :
                   disk = World(layout, TRUE, TRUE, values, rootContent, libContent)

FinderNext ==
    \/ FindSteamRoot /\ UNCHANGED <<regVars, instVars, vdfVars, stepVars>>
    \/ DiscoverLibraryFolders /\ UNCHANGED <<regVars, instVars, vdfVars, stepVars>>
    \/ GetGameInfo /\ UNCHANGED <<regVars, instVars, vdfVars, stepVars>>
    \/ CheckLibraryForGame /\ UNCHANGED <<regVars, instVars, vdfVars, stepVars>>
    \/ GameNotFound /\ UNCHANGED <<regVars, instVars, vdfVars, stepVars>>

SpecFinder == FinderInit /\ [][FinderNext]_vars


\* VdfParser on texts with comments
CommentInit ==
    /\ reg = NoFile
    /\ RegStart
    /\ InstStart
    /\ disk = EmptyDisk
    /\ FinderStart
    /\ StepStart
    /\ vdfSyms \in {syms \in SeqsUpTo(CommentedSyms, MaxCommented) : Balanced(syms)}
    /\ \E layout \in CommentLayouts, lead \in Leads, trail \in Trails :
          vdfText = lead \o RenderAll(vdfSyms, layout) \o trail
    /\ vdfOut = [pos |-> 0, result |-> EmptyDoc]
    /\ vdfDone = FALSE

CommentNext == ParseText /\ UNCHANGED <<regVars, instVars, finderVars, stepVars>>

SpecComment == CommentInit /\ [][CommentNext]_vars

\* VdfParser step by step, on every text of the bound
StepInit ==
    /\ reg = NoFile
    /\ RegStart
    /\ InstStart
    /\ disk = EmptyDisk
    /\ FinderStart
    /\ vdfSyms = <<>>
    /\ vdfText \in SeqsUpTo(ParseAlphabet, MaxChars) \cup TruncatedTexts
    /\ vdfOut = [pos |-> 0, result |-> EmptyDoc]
    /\ vdfDone = FALSE
    /\ StepStart

StepNext ==
    \/ ParseIteration /\ UNCHANGED <<regVars, instVars, finderVars>>
    \/ ParseLoopEnd /\ UNCHANGED <<regVars, instVars, finderVars>>

\* the parser is sequential code: a step that can be taken is taken
SpecStep == StepInit /\ [][StepNext]_vars /\ WF_vars(StepNext)

\* SteamGameFinder on descriptors with keys of several kinds
KeysInit ==
    /\ reg = NoFile
    /\ RegStart
    /\ InstStart
    /\ VdfStart
    /\ FinderStart
    /\ StepStart
    /\ \E layout \in RootLayouts :
          \E entries \in SeqsUpTo(KeyedEntries, MaxKeyed) :
             disk = KeyedWorld(layout, entries)

SpecKeys == KeysInit /\ [][FinderNext]_vars

-----------------------------------------------------------------------------
(* Claims about the registry patch (checked under SpecReg) *)

Range(s) == {s[i] : i \in 1..Len(s)}

\* the text has a line that is exactly the entry, below a line holding the
\* DllOverrides header, with no other section header line in between
EntryLineInSection(c) ==
    LET L == Lines(c) IN
    \E h \in 1..Len(L), k \in 1..Len(L) :
        /\ h < k
        /\ SECTION \in Range(L[h])
        /\ L[k] = ENTRY
        /\ \A j \in (h + 1)..(k - 1) :
              ~(L[j] # <<>> /\ StartsWithBracket(L[j][1]))

\* the latest call succeeded on a file that had the header and no marker
C1_Case ==
    /\ regLast.ok
    /\ Contains(regLast.before, <<SECTION>>)
    /\ ~Contains(regLast.before, <<MARKER>>)

\* C1: when user.reg has the DllOverrides header and no "xinput1_4"= marker,
\* the patch adds the entry as a line of its own inside the section and every
\* line of the original file is still there, unchanged and in order.
C1_InsertKeepsEveryLine ==
    C1_Case =>
        /\ IsSubseq(Lines(regLast.before), Lines(regLast.after))
        /\ EntryLineInSection(regLast.after)

\* C2: a successful patch run that directly follows a successful patch run
\* leaves user.reg byte-identical (idempotence), whatever the first run found.
C2_PatchIdempotent ==
    regStreak >= 2 => regLast.after = regLast.before

\* a second successful run, later on the clock than the run that appended the
\* section (so that appending again would write a different stamp)
C2_Witness ==
    /\ regStreak >= 2
    /\ \E t \in 1..MaxClock : now > t /\ Contains(reg, <<SECTION, StampTok(t)>>)

\* a second successful run after a run that inserted into an existing section
C2_WitnessInserted ==
    /\ regStreak >= 2
    /\ Contains(reg, ENTRY)
    /\ \A t \in 1..MaxClock : ~Contains(reg, <<StampTok(t)>>)

\* C3: after patch_wine_registry succeeds, user.reg holds the entry
\* "xinput1_4"="native,builtin" as a line inside the DllOverrides section.
C3_EntryInSectionAfterPatch ==
    regLast.ok => EntryLineInSection(regLast.after)

-----------------------------------------------------------------------------
(* Claims about extract_zip (checked under SpecZip) *)

Count(s, k, P(_)) == Cardinality({i \in 1..k : P(s[i])})

IsParentDir(c) == c = ".."
IsNormal(c) == c \notin {"..", ".", "/"}

\* the stored path is absolute, or some prefix of it has more ".." segments
\* than named segments: it leaves the directory it is joined to
LeavesRoot(name) ==
    \/ "/" \in Range(name)
    \/ \E k \in 1..Len(name) : Count(name, k, IsParentDir) > Count(name, k, IsNormal)

HasParentSegment(name) == ".." \in Range(name)

ExtractSucceeded == steps # <<>> /\ steps[Len(steps)] = <<"extract", TRUE>>
ExtractFailed == steps # <<>> /\ steps[Len(steps)] = <<"extract", FALSE>>

\* C4 (as amended): extract_zip creates nothing outside the destination root;
\* an entry whose stored path is absolute or climbs above the root is skipped
\* with no write at all, the skip is not an error, and the entries that stay
\* inside the root (a/../b among them) are extracted.
C4_ExtractStaysInsideDest ==
    /\ \A w \in installed : InsideDest(w.path)
    /\ \A i \in 1..Len(extractLog) :
          LeavesRoot(zip.entries[i].name) => extractLog[i] = {}
    /\ ExtractFailed /\ extractLog # <<>>
          /\ LeavesRoot(zip.entries[Len(extractLog)].name)
          => result = Err("Failed to access zip entry")
    /\ ExtractSucceeded =>
          /\ Len(extractLog) = Len(zip.entries)
          /\ \A i \in 1..Len(zip.entries) :
                ~LeavesRoot(zip.entries[i].name) =>
                    \E w \in extractLog[i] :
                        w.path = Resolve(Dest \o zip.entries[i].name)

\* an unsafe entry was skipped and a later entry of the same archive was
\* extracted, the extraction ending in success
C4_Witness ==
    /\ ExtractSucceeded
    /\ \E i \in 1..Len(extractLog), j \in 1..Len(extractLog) :
          /\ i < j
          /\ HasParentSegment(zip.entries[i].name)
          /\ LeavesRoot(zip.entries[i].name)
          /\ extractLog[i] = {}
          /\ extractLog[j] # {}

\* C4 (as stated): an entry whose stored path contains a parent-directory
\* segment is skipped with no write at all; nothing is written outside the
\* destination root.
C4_ParentSegmentSkipped ==
    /\ \A w \in installed : InsideDest(w.path)
    /\ \A i \in 1..Len(extractLog) :
          HasParentSegment(zip.entries[i].name) => extractLog[i] = {}

-----------------------------------------------------------------------------
(* Claims about install_to_wine (checked under SpecInstall) *)

StepOrder == <<"validate", "tag", "mkdir", "download", "extract", "remove", "patch">>

StepNames(s) == [i \in 1..Len(s) |-> s[i][1]]

LastStep == steps[Len(steps)]

FilesUntouched ==
    /\ zip = atStart.zip
    /\ installed = atStart.installed
    /\ reg = atStart.reg

\* C5: the steps of install_to_wine run in the order validate, resolve tag,
\* (create destination,) download, extract, delete the temporary archive,
\* patch user.reg, each at most once; a step runs only if every earlier one
\* succeeded; the call returns success only when all succeeded and otherwise
\* the failure of the first failing step; with a missing directory no HTTP
\* request is made and no file is created or modified.
C5_StepsInOrder ==
    /\ Len(steps) <= Len(StepOrder)
    /\ StepNames(steps) = SubSeq(StepOrder, 1, Len(steps))
    /\ \A i \in 1..(Len(steps) - 1) : steps[i][2]
    /\ Len(http) <= 2
    /\ (Len(http) >= 1 => http[1] = <<GEODE_API_URL>> /\ Len(steps) >= 1)
    /\ (Len(http) = 2 => http[2] = DownloadUrl(tag) /\ <<"tag", TRUE>> \in Range(steps))
    /\ (result = <<"ok">> =>
            /\ pc = "done"
            /\ StepNames(steps) = StepOrder
            /\ \A i \in 1..Len(steps) : steps[i][2])
    /\ (steps # <<>> /\ ~LastStep[2] => pc = "done" /\ result[1] = "err")
    /\ (pc = "done" /\ result[1] = "err" => ~LastStep[2])
    /\ (attempts > 0 /\ ~(atStart.prefixExists /\ atStart.gameDirExists) =>
            /\ result[1] = "err"
            /\ steps = <<<<"validate", FALSE>>>>
            /\ http = <<>>
            /\ FilesUntouched)

\* a complete successful installation that wrote files and changed user.reg
C5_Witness ==
    /\ result = <<"ok">>
    /\ installed # atStart.installed
    /\ reg # atStart.reg

\* a call with a missing game directory has returned
C5_WitnessMissingDir ==
    /\ pc = "done"
    /\ atStart.prefixExists /\ ~atStart.gameDirExists
    /\ attempts > 0

\* C6: when the archive download gets a non-success HTTP status,
\* download_and_extract fails and geode_temp.zip is neither created nor
\* modified (nor is anything else in the destination).
C6_BadStatusLeavesZipAlone ==
    (steps # <<>> /\ LastStep = <<"download", FALSE>> /\ result = Err("HTTP error"))
        => pc = "done" /\ FilesUntouched

\* the download of a second attempt was refused while the temporary file of
\* the first attempt was still on disk
C6_Witness ==
    /\ steps # <<>> /\ LastStep = <<"download", FALSE>>
    /\ result = Err("HTTP error")
    /\ zip.exists

\* download_and_extract has returned after a successful extraction, a failed
\* download stream or a failed extraction
C7_Returned ==
    \/ <<"extract", TRUE>> \in Range(steps) /\ pc \in {"patch", "done"}
    \/ /\ steps # <<>> /\ LastStep = <<"download", FALSE>>
       /\ result \in {Err("Failed to read response"), Err("Failed to write file")}
    \/ steps # <<>> /\ LastStep = <<"extract", FALSE>>

\* C7: whenever download_and_extract has returned (after a successful
\* extraction, a failed download stream or a failed extraction),
\* geode_temp.zip no longer exists in the destination directory.
C7_TempZipGone == C7_Returned => ~zip.exists

-----------------------------------------------------------------------------
(* Claims about VdfParser (checked under SpecVdf) *)

Max(S) == CHOOSE x \in S : \A y \in S : x >= y

\* k1.k2. ... .kn
RECURSIVE Dotted(_)
Dotted(keys) ==
    IF Len(keys) = 1 THEN keys[1]
    ELSE keys[1] \o <<".">> \o Dotted(Tail(keys))

\* the keys of the blocks that are open, outermost first
RECURSIVE KeysOf(_)
KeysOf(stack) ==
    IF stack = <<>> THEN <<>>
    ELSE (IF Head(stack).t = "open" THEN <<Head(stack).k>> ELSE <<>>)
             \o KeysOf(Tail(stack))

\* the leaves in source order, each with the dotted key the claim gives it
RECURSIVE LeavesFrom(_, _)
LeavesFrom(syms, stack) ==
    IF syms = <<>> THEN <<>>
    ELSE LET h == Head(syms) IN
         IF h.t = "leaf"
         THEN <<<<Dotted(KeysOf(stack) \o <<h.k>>), h.v>>>> \o LeavesFrom(Tail(syms), stack)
         ELSE IF h.t = "close"
              THEN LeavesFrom(Tail(syms), SubSeq(stack, 1, Len(stack) - 1))
         ELSE LeavesFrom(Tail(syms), Append(stack, h))

\* the document of the claim: every leaf under its dotted key, the last
\* occurrence of a key giving its value
ExpectedDoc(syms) ==
    LET leaves == LeavesFrom(syms, <<>>) IN
    [key \in {leaves[i][1] : i \in 1..Len(leaves)} |->
        leaves[Max({i \in 1..Len(leaves) : leaves[i][1] = key})][2]]

\* no block without a key, and no top-level block with the empty key
RECURSIVE KeyedFrom(_, _)
KeyedFrom(syms, depth) ==
    IF syms = <<>> THEN depth = 0
    ELSE LET h == Head(syms) IN
         IF h.t = "anon" THEN FALSE
         ELSE IF h.t = "open"
              THEN (depth = 0 => h.k # <<>>) /\ KeyedFrom(Tail(syms), depth + 1)
         ELSE IF h.t = "close" THEN depth > 0 /\ KeyedFrom(Tail(syms), depth - 1)
         ELSE KeyedFrom(Tail(syms), depth)

Keyed(syms) == KeyedFrom(syms, 0)

\* a keyed text, or a keyed text wrapped as a whole in one pair of braces
KeyedOrWrapped(syms) ==
    \/ Keyed(syms)
    \/ /\ Len(syms) >= 2
       /\ syms[1] = AnonOpen
       /\ syms[Len(syms)] = Close
       /\ Keyed(SubSeq(syms, 2, Len(syms) - 1))

\* C10 (as amended): for every text made of leaves "key" "value" and blocks
\* "key" { ... } (strings without '"', any white space between tokens, no
\* top-level block with the empty key), possibly wrapped as a whole in one
\* pair of braces, the document holds every leaf under k1.k2. ... .kn.key,
\* siblings after a closed block under the prefix of their own block, and for
\* a repeated key the value of its last occurrence.
C10_FlattenedKeys ==
    (vdfDone /\ KeyedOrWrapped(vdfSyms)) => vdfOut.result = ExpectedDoc(vdfSyms)

\* "A" { "A" { "B" "C" } "B" "D" } has been parsed
C10_Witness ==
    /\ vdfDone
    /\ vdfSyms = <<Open(<<"A">>), Open(<<"A">>), Leaf(<<"B">>, <<"C">>), Close,
                   Leaf(<<"B">>, <<"D">>), Close>>
    /\ vdfOut.result = (<<"A", ".", "A", ".", "B">> :> <<"C">>)
                           @@ (<<"A", ".", "B">> :> <<"D">>)

\* { "A" { "B" "C" } } has been parsed and gave exactly {A.B: C}
C10_WitnessExample ==
    /\ vdfDone
    /\ vdfSyms = <<AnonOpen, Open(<<"A">>), Leaf(<<"B">>, <<"C">>), Close, Close>>
    /\ vdfOut.result = (<<"A", ".", "B">> :> <<"C">>)

\* C10 (as stated): for every input text, every leaf is stored under the
\* dotted keys of the blocks around it and the last occurrence of a key wins.
C10_FlattenedKeysEveryText ==
    vdfDone => vdfOut.result = ExpectedDoc(vdfSyms)

-----------------------------------------------------------------------------
(* Claims about SteamGameFinder (checked under SpecFinder) *)

\* the manifest of the application in library L, parsed
ManifestDoc(L) == parse_file(read_to_string(disk, AcfFile(L, app_id)))

\* L/common/D, as Path::join builds it
InstallPath(L) == join(join(L, <<"common">>), ManifestDoc(L)[INSTALLDIR_KEY])

\* library L holds the application: its manifest exists, the parsed manifest
\* has the key AppState.installdir, and the directory it names exists
HoldsGame(L) ==
    /\ exists(disk, AcfFile(L, app_id))
    /\ INSTALLDIR_KEY \in DOMAIN ManifestDoc(L)
    /\ exists(disk, InstallPath(L))

Matches == {i \in 1..Len(library_folders) : HoldsGame(library_folders[i])}

\* C8: when get_game_info has returned, its result is that of the first
\* library L, in the order of library_folders, whose manifest of the
\* application exists, has the key AppState.installdir with a value D, and
\* whose L/common/D exists: the install path is L/common/D, the owning
\* library is L, and no library after L was looked into. When there is no
\* such library the result is None and every library was looked into. While
\* the search runs, the libraries looked into are the first ones of the list
\* and none of them holds the application.
C8_FirstMatchWins ==
    /\ fpc = "scan" =>
          /\ consulted = SubSeq(library_folders, 1, scanIdx - 1)
          /\ \A i \in 1..Len(consulted) : ~HoldsGame(consulted[i])
    /\ fpc = "done" =>
          IF Matches = {}
          THEN /\ game_info = NoGameInfo
               /\ consulted = library_folders
          ELSE /\ game_info.found
               /\ game_info.app_id = app_id
               /\ game_info.library_path = library_folders[Min(Matches)]
               /\ game_info.game_path = InstallPath(library_folders[Min(Matches)])
               /\ consulted = SubSeq(library_folders, 1, Min(Matches))

\* the search went past a first library that has a manifest but not the
\* directory, found the game in the second and left a third one alone
C8_Witness ==
    /\ fpc = "done"
    /\ Len(library_folders) = 3
    /\ exists(disk, AcfFile(library_folders[1], app_id))
    /\ game_info.found
    /\ game_info.library_path = library_folders[2]
    /\ game_info.game_path = join(library_folders[2], <<"common">> \o <<SEP>> \o GAME)
    /\ Len(consulted) = 2

\* the search ended without a result although a manifest was there
C8_WitnessAbsent ==
    /\ fpc = "done"
    /\ game_info = NoGameInfo
    /\ Len(library_folders) >= 2
    /\ \E i \in 1..Len(library_folders) : exists(disk, AcfFile(library_folders[i], app_id))

\* C9: after discover_library_folders, the list is empty when no root was
\* found; otherwise its first element is <root>/steamapps, no path occurs
\* twice in it, and no later element denotes the root's own steamapps
\* directory.
C9_RootFirstNoDuplicates ==
    fpc \in {"ready", "scan", "done"} =>
        IF steam_root = None THEN library_folders = <<>>
        ELSE /\ library_folders # <<>>
             /\ library_folders[1] = join(steam_root, STEAMAPPS)
             /\ \A i, j \in 1..Len(library_folders) :
                   i # j => library_folders[i] # library_folders[j]
             /\ \A i \in 2..Len(library_folders) :
                   Canonical(disk, library_folders[i])
                       # Canonical(disk, library_folders[1])

\* the part of C9 about the texts of the paths alone
C9_RootFirstNoTextTwice ==
    fpc \in {"ready", "scan", "done"} =>
        IF steam_root = None THEN library_folders = <<>>
        ELSE /\ library_folders # <<>>
             /\ library_folders[1] = join(steam_root, STEAMAPPS)
             /\ \A i, j \in 1..Len(library_folders) :
                   i # j => library_folders[i] # library_folders[j]

-----------------------------------------------------------------------------
(* Claims about comments (checked under SpecComment) *)

\* the text without its comments: outside a quoted string, everything from
\* "//" up to the end of the line is dropped (the line end stays)
RECURSIVE StripComments(_, _)
StripComments(chars, quoted) ==
    IF chars = <<>> THEN <<>>
    ELSE IF quoted
         THEN <<Head(chars)>> \o StripComments(Tail(chars), Head(chars) # QUOTE)
    ELSE IF Len(chars) >= 2 /\ chars[1] = "/" /\ chars[2] = "/"
         THEN StripComments(SubSeq(chars, SkipLine(chars, 0) + 1, Len(chars)), FALSE)
    ELSE <<Head(chars)>> \o StripComments(Tail(chars), Head(chars) = QUOTE)

\* C11: the document of a text equals the document of the same text with
\* every comment (from "//" outside a quoted string to the end of the line)
\* removed, wherever between tokens the comments stand.
C11_CommentsIgnored ==
    vdfDone => vdfOut.result = parse_file(StripComments(vdfText, FALSE))

\* the part of C11 for texts whose comments stand where a key, a brace or
\* the end of the text may stand, none between a key and its value or brace
C11_CommentsBetweenItemsIgnored ==
    (vdfDone /\ \E layout \in CommentLayouts, lead \in Leads, trail \in Trails :
                   /\ layout.leafGap = <<" ">>
                   /\ layout.openGap = <<" ">>
                   /\ vdfText = lead \o RenderAll(vdfSyms, layout) \o trail)
        => vdfOut.result = parse_file(StripComments(vdfText, FALSE))

\* a text with a comment after a value has been parsed to a document with
\* an entry
C11_WitnessBetweenItems ==
    /\ vdfDone
    /\ vdfText = <<QUOTE, "B", QUOTE, " ", QUOTE, "C", QUOTE, "/", "/", "x">>
    /\ vdfOut.result = (<<"B">> :> <<"C">>)

-----------------------------------------------------------------------------
(* Claims about the parser's steps (checked under SpecStep) *)

\* the value of the latest insertion under a key
LastStored(key) ==
    stored[Max({i \in 1..Len(stored) : stored[i][1] = key})][2]

\* the cursor never moves backward and moves forward in every loop
\* iteration; every call was entered with the cursor further on than its
\* caller was; every character read is one of the text; every entry
\* inserted is in the map, with the value inserted last under its key; what
\* is returned is the document of parse_file
StepsSafe ==
    /\ lastStep.to >= lastStep.from
    /\ lastStep.kind \notin {"start", "end"} => lastStep.to > lastStep.from
    /\ \A i \in lastStep.reads : 0 <= i /\ i < Len(vdfText)
    /\ \A i \in 1..Len(frames) :
          /\ frames[i].entry <= cursor
          /\ i > 1 => frames[i].entry > frames[i - 1].entry
    /\ \A i \in 1..Len(stored) :
          /\ stored[i][1] \in DOMAIN parsed
          /\ parsed[stored[i][1]] = LastStored(stored[i][1])
    /\ ppc = "returned" => frames = <<>> /\ parsed = parse_file(vdfText)

\* C12: on every text, also a truncated or malformed one, the parse
\* returns; until then the cursor never moves backward, moves forward in
\* every loop iteration and before every recursive call, no character is
\* read at an index at or past the end of the text, and every entry stored
\* is in the returned document.
C12_TerminatesForwardOnly == []StepsSafe /\ <>(ppc = "returned")

\* a text that ends inside a value has been parsed: the cursor ended past
\* the end and the entry is in the document
C12_Witness ==
    /\ ppc = "returned"
    /\ vdfText = <<QUOTE, "a", QUOTE, QUOTE>>
    /\ cursor = Len(vdfText) + 1
    /\ parsed = (<<"a">> :> <<>>)

\* a text with an unmatched opening brace and a lone slash has been parsed
C12_WitnessBraces ==
    /\ ppc = "returned"
    /\ vdfText = <<QUOTE, QUOTE, "{", "/">>
    /\ lastStep.kind = "end"

\* a sample text cut off inside its last value has been parsed, with
\* three entries stored before and the fourth cut short
C12_WitnessTruncated ==
    /\ ppc = "returned"
    /\ Len(stored) = 4
    /\ cursor = Len(vdfText) + 1
    /\ stored[4] = <<<<"B">>, <<>>>>

-----------------------------------------------------------------------------
(* Claims about the keys of the descriptor (checked under SpecKeys) *)

EndsWith(s, suffix) ==
    Len(s) >= Len(suffix) /\ SubSeq(s, Len(s) - Len(suffix) + 1, Len(s)) = suffix

PATH_SUFFIX == <<".", "path">>

\* the parsed descriptor of the root that was found
DescriptorDoc == LibraryData(disk, steam_root)

\* C13: after discover_library_folders, for every value P of the parsed
\* descriptor whose P/steamapps is not the root's: P/steamapps is in the
\* list exactly when some flattened key ending in .path has the value P and
\* P/steamapps exists; and every element after the first is such a path.
C13_OnlyPathSuffixKeys ==
    (fpc \in {"ready", "scan", "done"} /\ steam_root # None) =>
        /\ \A k \in DOMAIN DescriptorDoc :
              LET path == join(DescriptorDoc[k], STEAMAPPS)
              IN  path # join(steam_root, STEAMAPPS) =>
                     (path \in Range(library_folders)
                        <=> /\ exists(disk, path)
                            /\ \E e \in DOMAIN DescriptorDoc :
                                  /\ EndsWith(e, PATH_SUFFIX)
                                  /\ DescriptorDoc[e] = DescriptorDoc[k])
        /\ \A i \in 2..Len(library_folders) :
              \E e \in DOMAIN DescriptorDoc :
                 /\ EndsWith(e, PATH_SUFFIX)
                 /\ library_folders[i] = join(DescriptorDoc[e], STEAMAPPS)

\* the same with "contains .path" in the place of "ends in .path"
C13_KeysContainingPath ==
    (fpc \in {"ready", "scan", "done"} /\ steam_root # None) =>
        /\ \A k \in DOMAIN DescriptorDoc :
              LET path == join(DescriptorDoc[k], STEAMAPPS)
              IN  path # join(steam_root, STEAMAPPS) =>
                     (path \in Range(library_folders)
                        <=> /\ exists(disk, path)
                            /\ \E e \in DOMAIN DescriptorDoc :
                                  /\ Contains(e, PATH_SUFFIX)
                                  /\ DescriptorDoc[e] = DescriptorDoc[k])
        /\ \A i \in 2..Len(library_folders) :
              \E e \in DOMAIN DescriptorDoc :
                 /\ Contains(e, PATH_SUFFIX)
                 /\ library_folders[i] = join(DescriptorDoc[e], STEAMAPPS)

=============================================================================
